---- MODULE Spec2Model ----
(***************************************************************************)
(* Model of src/maml_rl/envs/mujoco/ant.py: the task-conditioned Ant       *)
(* environments AntVelEnv, AntDirEnv and AntPosEnv on top of AntEnv.       *)
(*                                                                         *)
(* Units.  Velocities and positions are integers in tenths (20 is 2.0),    *)
(* heights (state[2]) are integers in hundredths (20 is 0.2, 100 is 1.0).  *)
(* A float that may be non-finite is a record [k, v] with k one of "fin",  *)
(* "nan", "inf".  Python's state[2] is state[3] here (TLA+ tuples start at *)
(* 1).  An Optional value is a tuple: <<>> is None and <<x>> holds x.      *)
(*                                                                         *)
(* Objects.  Task records are Python dicts with identity: heap[r] is the   *)
(* content of the dict with reference r, and fields hold references.       *)
(* heap[1] is the dict created once, when the class body is executed, as   *)
(* the default value of __init__'s parameter task={}.                      *)
(*                                                                         *)
(* Not carried: the numeric value of ctrl_cost, contact_cost, the total    *)
(* reward and the observation vector (products of adapter queries no       *)
(* checked property constrains).  The read of action_scaling that          *)
(* ctrl_cost makes is modelled.                                            *)
(***************************************************************************)
EXTENDS Integers, Sequences, FiniteSets, TLC

VARIABLES
  variant,          \* the class of the instances: its task key
  instances,        \* the instances the outer loop creates in this process
  outcomes,         \* the state vectors the physics of this run can produce
  heap,             \* dict objects: reference -> content
  origin,           \* ghost: who created each dict
  _task,            \* self._task: a reference (0 before construction)
  goal,             \* self._goal_vel / _goal_dir / _goal_pos (Optional)
  _action_scaling,  \* self._action_scaling: None or an array object
  sim,              \* the adapter's full state vector, state_vector()
  np_random,        \* self.np_random: position in the generator's stream
  ret,              \* what the last call returned (or that it raised)
  computed,         \* ghost: how often line 13 ran for the instance
  firstServed,      \* ghost: the array the first action_scaling access gave
  lastReset         \* ghost: the record of the most recent reset_task call

vars == <<variant, instances, outcomes, heap, origin, _task, goal, _action_scaling, sim,
          np_random, ret, computed, firstServed, lastReset>>

(* ------------------------------ bounds -------------------------------- *)

MaxRecords == 3     \* dict objects alive at once, the default dict included
MaxTasks == 2       \* largest num_tasks passed to sample_tasks

(* ------------------------------ values -------------------------------- *)

Envs == {"e1", "e2"}
Variants == {"velocity", "direction", "position"}

None == <<>>
Some(x) == <<x>>

F(x) == [k |-> "fin", v |-> x]
NaN == [k |-> "nan", v |-> 0]
PosInf == [k |-> "inf", v |-> 1]

Abs(x) == IF x < 0 THEN -x ELSE x

isfinite(x) == x.k = "fin"
\* x >= c and x <= c for a finite constant c, as IEEE comparisons
Ge(x, c) == \/ x.k = "fin" /\ x.v >= c
            \/ x.k = "inf" /\ x.v > 0
Le(x, c) == \/ x.k = "fin" /\ x.v <= c
            \/ x.k = "inf" /\ x.v < 0

(* ------------------------------ dicts --------------------------------- *)

EmptyDict == [k \in {} |-> 0]
Dict(key, value) == [k \in {key} |-> value]
DefaultTaskRef == 1

\* dict.get(key, default)
DictGet(d, key, default) == IF key \in DOMAIN d THEN d[key] ELSE default

\* the second argument of task.get in each __init__
GoalDefault(v) ==
  CASE v = "velocity" -> 0
    [] v = "direction" -> 1
    [] v = "position" -> <<0, 0>>

\* records the outer loop writes itself: one without the key, one with it
CallerRecords(v) ==
  CASE v = "velocity" -> {EmptyDict, Dict("velocity", 20)}
    [] v = "direction" -> {EmptyDict, Dict("direction", -1)}
    [] v = "position" -> {EmptyDict, Dict("position", <<10, -20>>)}

(* ------------------- the physics adapter and numpy -------------------- *)
(* mujoco_env.MujocoEnv and numpy are outside the modelled source; they    *)
(* are described by the interface the environments use.                    *)

\* state_vector() after construction: finite, the torso standing
InitSim == <<F(0), F(0), F(75)>>

\* the state vectors forward_dynamics can leave behind: the torso at,
\* inside and outside the height limits, and diverged simulations
SimStates ==
  { <<F(0), F(0), F(75)>>, <<F(0), F(0), F(19)>>, <<F(0), F(0), F(20)>>,
    <<F(0), F(0), F(100)>>, <<F(0), F(0), F(101)>>,
    <<NaN, F(0), F(50)>>, <<F(0), F(0), PosInf>> }
\* a coarser choice: standing, fallen
SimStatesCoarse == { <<F(0), F(0), F(75)>>, <<F(0), F(0), F(19)>> }

\* MujocoEnv.__init__('ant.xml', frame_skip=1): the simulation in its
\* initial state and a new generator; it reads no field of the variants
MujocoEnv_init == [sim |-> InitSim, np_random |-> 0]

\* action_space.low and action_space.high (tenths), fixed for an instance
ActionBounds == [low |-> <<-10>>, high |-> <<10>>]
Actions == {<<0>>, <<10>>}

\* what get_body_comvel("torso")[0] and get_body_com("torso")[:2] answer
\* after the step; each variant reads one of the two
NoQuery == [comvel |-> 0, com |-> <<0, 0>>]
Queries(v) ==
  IF v = "position"
    THEN {[comvel |-> 0, com |-> c] : c \in {<<0, 0>>, <<10, -20>>}}
    ELSE {[comvel |-> x, com |-> <<0, 0>>] : x \in {0, 20}}

\* the generator's raw stream, in tenths of [0, 1); np_random is the offset
RawStream == <<0, 5, 9>>
Raw(offset, i) == RawStream[((offset + i - 1) % Len(RawStream)) + 1]

\* np_random.uniform(low, high) for the raw draw u: in [low, high)
uniform(low, high, u) == low + ((high - low) * u) \div 10
\* np_random.binomial(1, p=0.5) for the raw draw u
binomial(u) == IF u < 5 THEN 1 ELSE 0

(* ------------------------------ AntEnv -------------------------------- *)

\* 0.5 * (ub - lb), component-wise
HalfRange(lb, ub) == [i \in 1..Len(lb) |-> (ub[i] - lb[i]) \div 2]

\* a variant that computes the vector on every access
action_scaling_uncached(cache, n) ==
  [cache |-> Some([obj |-> n + 1,
                   val |-> HalfRange(ActionBounds.low, ActionBounds.high)]),
   computed |-> n + 1]

\* The property action_scaling, for the cache as it is and the n
\* computations made so far: the cache after the access, which is what the
\* access returns, and the computations made by then.  An array object is
\* [obj, val]; obj numbers the computation that created it.
action_scaling(cache, n) ==
  IF cache = None
    THEN [cache |-> Some([obj |-> n + 1,
                          val |-> HalfRange(ActionBounds.low,
                                            ActionBounds.high)]),
          computed |-> n + 1]
    ELSE [cache |-> cache, computed |-> n]

(* --------------------------- the variants ----------------------------- *)

\* task.get(key, default) in __init__
InitGoal(v, d) == DictGet(d, v, GoalDefault(v))

\* forward_reward (velocity, direction) and goal_reward (position), tenths
task_reward(v, q, g) ==
  CASE v = "velocity" -> (-1) * Abs(q.comvel - g) + 10
    [] v = "direction" -> g * q.comvel
    [] v = "position" ->
         (-1) * (Abs(q.com[1] - g[1]) + Abs(q.com[2] - g[2])) + 40

\* a variant that reads the state before forward_dynamics
state_vector_stale(pre, post) == pre

\* the vector step reads with state_vector(): the state after the advance
state_vector(pre, post) == post

\* a variant with a strict lower limit
notdone_strict(state) ==
  /\ \A i \in 1..Len(state) : isfinite(state[i])
  /\ ~Le(state[3], 20)
  /\ Le(state[3], 100)

\* notdone of step
notdone(state) ==
  /\ \A i \in 1..Len(state) : isfinite(state[i])
  /\ Ge(state[3], 20)
  /\ Le(state[3], 100)

\* a variant with the ranges of another class and no map to {-1, +1}
SampledValue_swapped(v, u1, u2) ==
  CASE v = "velocity" -> uniform(-30, 30, u1)
    [] v = "direction" -> binomial(u1)
    [] v = "position" -> <<uniform(0, 30, u1), uniform(0, 30, u2)>>

\* the value one sampled task carries, from its raw draws u1 (and u2)
SampledValue(v, u1, u2) ==
  CASE v = "velocity" -> uniform(0, 30, u1)
    [] v = "direction" -> 2 * binomial(u1) - 1
    [] v = "position" -> <<uniform(-30, 30, u1), uniform(-30, 30, u2)>>

DrawsPerTask(v) == IF v = "position" THEN 2 ELSE 1

\* tasks = [{key: value} for value in values]
SampledTasks(v, offset, n) ==
  [i \in 1..n |->
     LET k == DrawsPerTask(v) IN
     Dict(v, SampledValue(v, Raw(offset, k * (i - 1) + 1),
                             Raw(offset, k * (i - 1) + k)))]

(* ------------------------------ calls --------------------------------- *)

Constructed(e) == _task[e] # 0

RetNone ==
  [op |-> "none", env |-> "e1", raised |-> FALSE, n |-> 0, arg |-> 0,
   state |-> InitSim, done |-> FALSE, reward |-> 0, q |-> NoQuery,
   task |-> 0, tasks |-> <<>>, scaling |-> None, after_done |-> FALSE]

\* A record argument of the outer loop: one it wrote for the call (a new
\* dict object), or one it holds: a dict it wrote or was returned by
\* sample_tasks before, or the one the step just made returned as info's
\* task.
FreshArgs ==
  IF Len(heap) < MaxRecords
    THEN {[ref |-> Len(heap) + 1, heap |-> Append(heap, d),
           origin |-> Append(origin, "caller")] : d \in CallerRecords(variant)}
    ELSE {}
HeldArgs ==
  {[ref |-> r, heap |-> heap, origin |-> origin] :
     r \in {x \in 1..Len(heap) :
             origin[x] # "default" \/ (ret.op = "step" /\ ret.task = x)}}
DefaultArg == [ref |-> DefaultTaskRef, heap |-> heap, origin |-> origin]

\* AntVelEnv / AntDirEnv / AntPosEnv.__init__(task) with AntEnv.__init__:
\* the fields, then the adapter's construction, then the cache cleared.
Construct(e, a) ==
  /\ ~Constructed(e)
  /\ heap' = a.heap
  /\ origin' = a.origin
  /\ _task' = [_task EXCEPT ![e] = a.ref]
  /\ goal' = [goal EXCEPT ![e] = Some(InitGoal(variant, a.heap[a.ref]))]
  /\ _action_scaling' = [_action_scaling EXCEPT ![e] = None]
  /\ sim' = [sim EXCEPT ![e] = MujocoEnv_init.sim]
  /\ np_random' = [np_random EXCEPT ![e] = MujocoEnv_init.np_random]
  /\ ret' = [RetNone EXCEPT !.op = "init", !.env = e, !.arg = a.ref]
  /\ UNCHANGED <<variant, instances, outcomes, computed, firstServed, lastReset>>

\* step(action)
Step(e, action) ==
  /\ Constructed(e)
  /\ \E post \in outcomes, q \in Queries(variant) :
       LET got == action_scaling(_action_scaling[e], computed[e])
           cache == got.cache
           state == state_vector(sim[e], post)
       IN
       /\ sim' = [sim EXCEPT ![e] = post]
       /\ _action_scaling' = [_action_scaling EXCEPT ![e] = cache]
       /\ computed' = [computed EXCEPT ![e] = got.computed]
       /\ firstServed' =
            [firstServed EXCEPT ![e] = IF @ = None THEN cache ELSE @]
       /\ ret' = [RetNone EXCEPT
                    !.op = "step", !.env = e, !.state = state,
                    !.done = ~notdone(state),
                    !.reward = task_reward(variant, q, goal[e][1]),
                    !.q = q, !.task = _task[e], !.scaling = cache,
                    !.after_done = (ret.op = "step" /\ ret.env = e /\ ret.done)]
  /\ UNCHANGED <<variant, instances, outcomes, heap, origin, _task, goal, np_random,
                 lastReset>>

\* sample_tasks(num_tasks)
SampleTasks(e, n) ==
  /\ Constructed(e)
  /\ Len(heap) + n <= MaxRecords
  /\ LET new == SampledTasks(variant, np_random[e], n) IN
     /\ heap' = heap \o new
     /\ origin' = origin \o [i \in 1..n |-> "sampled"]
     /\ np_random' = [np_random EXCEPT
                        ![e] = (@ + n * DrawsPerTask(variant)) % Len(RawStream)]
     /\ ret' = [RetNone EXCEPT
                  !.op = "sample_tasks", !.env = e, !.n = n,
                  !.tasks = [i \in 1..n |-> Len(heap) + i]]
  /\ UNCHANGED <<variant, instances, outcomes, _task, goal, _action_scaling, sim,
                 computed, firstServed, lastReset>>

\* a variant that fills the missing key into the caller's dict
\* (task.setdefault(key, default)) instead of raising
ResetTask_setdefault(e, a) ==
  /\ Constructed(e)
  /\ heap' = [a.heap EXCEPT
               ![a.ref] = IF variant \in DOMAIN @
                            THEN @ ELSE Dict(variant, GoalDefault(variant))]
  /\ origin' = a.origin
  /\ _task' = [_task EXCEPT ![e] = a.ref]
  /\ goal' = [goal EXCEPT
               ![e] = Some(InitGoal(variant, a.heap[a.ref]))]
  /\ ret' = [RetNone EXCEPT !.op = "reset_task", !.env = e, !.arg = a.ref]
  /\ lastReset' = [lastReset EXCEPT ![e] = a.ref]
  /\ UNCHANGED <<variant, instances, outcomes, _action_scaling, sim,
                 np_random, computed, firstServed>>

\* a variant that clears the cache as the constructors do
ResetTask_clears(e, a) ==
  /\ Constructed(e)
  /\ heap' = a.heap
  /\ origin' = a.origin
  /\ _task' = [_task EXCEPT ![e] = a.ref]
  /\ goal' = IF variant \in DOMAIN a.heap[a.ref]
               THEN [goal EXCEPT ![e] = Some(a.heap[a.ref][variant])]
               ELSE goal
  /\ _action_scaling' = [_action_scaling EXCEPT ![e] = None]
  /\ ret' = [RetNone EXCEPT
               !.op = "reset_task", !.env = e, !.arg = a.ref,
               !.raised = (variant \notin DOMAIN a.heap[a.ref])]
  /\ lastReset' = [lastReset EXCEPT ![e] = a.ref]
  /\ UNCHANGED <<variant, instances, outcomes, sim, np_random, computed,
                 firstServed>>

\* reset_task(task): self._task = task, then task[key], which raises
\* KeyError when the dict has no such key
ResetTask(e, a) ==
  /\ Constructed(e)
  /\ heap' = a.heap
  /\ origin' = a.origin
  /\ _task' = [_task EXCEPT ![e] = a.ref]
  /\ goal' = IF variant \in DOMAIN a.heap[a.ref]
               THEN [goal EXCEPT ![e] = Some(a.heap[a.ref][variant])]
               ELSE goal
  /\ ret' = [RetNone EXCEPT
               !.op = "reset_task", !.env = e, !.arg = a.ref,
               !.raised = (variant \notin DOMAIN a.heap[a.ref])]
  /\ lastReset' = [lastReset EXCEPT ![e] = a.ref]
  /\ UNCHANGED <<variant, instances, outcomes, _action_scaling, sim, np_random,
                 computed, firstServed>>

\* a read of the property action_scaling by the outer loop
GetActionScaling(e) ==
  /\ Constructed(e)
  /\ LET got == action_scaling(_action_scaling[e], computed[e])
         cache == got.cache
     IN
     /\ _action_scaling' = [_action_scaling EXCEPT ![e] = cache]
     /\ computed' = [computed EXCEPT ![e] = got.computed]
     /\ firstServed' =
          [firstServed EXCEPT ![e] = IF @ = None THEN cache ELSE @]
     /\ ret' = [RetNone EXCEPT
                  !.op = "action_scaling", !.env = e, !.scaling = cache]
  /\ UNCHANGED <<variant, instances, outcomes, heap, origin, _task, goal, sim,
                 np_random, lastReset>>

(* -------------------------- specifications ---------------------------- *)

InitWith(is, ss) ==
  /\ variant \in Variants
  /\ instances = is
  /\ outcomes = ss
  /\ heap = <<EmptyDict>>
  /\ origin = <<"default">>
  /\ _task = [e \in Envs |-> 0]
  /\ goal = [e \in Envs |-> None]
  /\ _action_scaling = [e \in Envs |-> None]
  /\ sim = [e \in Envs |-> InitSim]
  /\ np_random = [e \in Envs |-> 0]
  /\ ret = RetNone
  /\ computed = [e \in Envs |-> 0]
  /\ firstServed = [e \in Envs |-> None]
  /\ lastReset = [e \in Envs |-> 0]

\* one instance in the process
Init == InitWith({"e1"}, SimStates)
\* two instances of one class in the process, under the coarser physics
InitTwo == InitWith(Envs, SimStatesCoarse)

Next ==
  \/ \E e \in instances : \E a \in {DefaultArg} \cup FreshArgs : Construct(e, a)
  \/ \E e \in instances : \E action \in Actions : Step(e, action)
  \/ \E e \in instances : \E n \in 0..MaxTasks : SampleTasks(e, n)
  \/ \E e \in instances : \E a \in HeldArgs \cup FreshArgs : ResetTask(e, a)
  \/ \E e \in instances : GetActionScaling(e)

Spec == Init /\ [][Next]_vars
SpecTwo == InitTwo /\ [][Next]_vars

(* ------------------------------ claims -------------------------------- *)

\* the goal a task record stands for: the value under the variant's key,
\* or the variant's default when the key is absent
GoalOf(d) == DictGet(d, variant, GoalDefault(variant))

\* a state vector with every entry finite and state[2] in [0.2, 1.0]
Healthy(state) ==
  /\ \A i \in 1..Len(state) : state[i].k = "fin"
  /\ state[3].v >= 20
  /\ state[3].v <= 100

\* a value of the variant's documented range
InRange(x) ==
  CASE variant = "velocity" -> x >= 0 /\ x <= 30
    [] variant = "direction" -> x \in {-1, 1}
    [] variant = "position" ->
         Len(x) = 2 /\ \A i \in 1..2 : x[i] >= -30 /\ x[i] <= 30

\* C1: in every reachable state the goal field of each instance equals the
\* goal of its current task record _task: the value under the variant's
\* key, or the variant's default when the key is absent; also after a
\* reset_task call that ended in an error.
C1_GoalTracksTask ==
  \A e \in instances :
    Constructed(e) => goal[e] = Some(GoalOf(heap[_task[e]]))

\* C2: step returns done = True exactly when the state vector after the
\* step has a non-finite entry or state[2] lies outside [0.2, 1.0].
C2_DoneIffUnhealthy ==
  ret.op = "step" =>
    LET state == sim[ret.env] IN
    ret.done <=>
      \/ \E i \in 1..Len(state) : state[i].k # "fin"
      \/ state[3].k = "fin" /\ (state[3].v < 20 \/ state[3].v > 100)

\* C2 witness: a step ended with state[2] = 0.2 exactly, all entries
\* finite, and returned done = False.
C2_Witness ==
  /\ ret.op = "step"
  /\ sim[ret.env] = <<F(0), F(0), F(20)>>
  /\ ~ret.done

\* C3: after reset_task(r), every step returns r itself under info's task
\* key (the same dict object), and no call changes the content of a dict
\* that exists: records returned or given are never mutated.
C3_RoundTrip ==
  [][ /\ \A r \in 1..Len(heap) : r <= Len(heap') /\ heap'[r] = heap[r]
      /\ (ret'.op = "step" /\ lastReset'[ret'.env] # 0)
           => ret'.task = lastReset'[ret'.env] ]_vars

\* C3 witness: a step returned, as info's task, a record that sample_tasks
\* created and that the latest reset_task was given, after an earlier step
\* on the same task and with a later dict created in between.
C3_Witness ==
  /\ ret.op = "step"
  /\ ret.after_done
  /\ lastReset[ret.env] # 0
  /\ ret.task = lastReset[ret.env]
  /\ origin[ret.task] = "sampled"
  /\ Len(heap) > ret.task

\* C4: on a velocity instance, after any sequence of reset_task calls the
\* forward_reward of a step is computed against the goal velocity of the
\* most recent reset_task record, and it is exactly 1.0 when forward_vel
\* equals that goal velocity.
C4_RewardAgainstLastReset ==
  (variant = "velocity" /\ ret.op = "step" /\ lastReset[ret.env] # 0) =>
    LET goal_vel == GoalOf(heap[lastReset[ret.env]]) IN
    /\ ret.reward = (-1) * Abs(ret.q.comvel - goal_vel) + 10
    /\ ret.q.comvel = goal_vel => ret.reward = 10

\* C5: the computation of action_scaling runs at most once for an
\* instance, and every access, inside step or by the outer loop, returns
\* the array the first access returned: 0.5 * (high - low).
C5_ScalingComputedOnce ==
  /\ \A e \in instances : computed[e] <= 1
  /\ ret.op \in {"step", "action_scaling"} =>
       /\ ret.scaling # None
       /\ ret.scaling = firstServed[ret.env]
       /\ ret.scaling[1].val =
            [i \in 1..Len(ActionBounds.low) |->
               (ActionBounds.high[i] - ActionBounds.low[i]) \div 2]

\* C5 witness: the outer loop read action_scaling after a step (which read
\* it first) and a later reset_task.
C5_Witness ==
  /\ ret.op = "action_scaling"
  /\ computed[ret.env] = 1
  /\ sim[ret.env] # InitSim
  /\ lastReset[ret.env] # 0

\* C6: a reset_task call leaves the simulation state, the cached
\* action-scaling vector and the random source of every instance as they
\* were, and the task and goal of every other instance.
C6_ResetTaskFrame ==
  [][ ret'.op = "reset_task" =>
        /\ UNCHANGED <<sim, _action_scaling, np_random>>
        /\ \A e \in instances \ {ret'.env} :
             _task'[e] = _task[e] /\ goal'[e] = goal[e] ]_vars

\* C6 witness: reset_task returned on an instance whose simulation had
\* advanced, whose cache was filled and whose generator had been drawn from.
C6_Witness ==
  /\ ret.op = "reset_task"
  /\ sim[ret.env] # InitSim
  /\ _action_scaling[ret.env] # None
  /\ np_random[ret.env] # 0

\* C7: a record without the variant's key, given to the constructor or to
\* reset_task, makes the goal the variant's default and raises no error.
C7_MissingKeyFallsBack ==
  (ret.op \in {"init", "reset_task"} /\ variant \notin DOMAIN heap[ret.arg]) =>
    /\ ~ret.raised
    /\ goal[ret.env] = Some(GoalDefault(variant))

\* C8: two instances share no mutable object: unless the outer loop gave
\* them one (here: it has called reset_task on neither, and a constructor
\* is given the default or a new record), their _task fields are
\* different dict objects.
C8_NoSharedTask ==
  \A a \in instances : \A b \in instances \ {a} :
    (Constructed(a) /\ Constructed(b) /\ lastReset[a] = 0 /\ lastReset[b] = 0)
      => _task[a] # _task[b]

\* C9: sample_tasks(n) returns n records, each with the variant's key alone
\* and a value of the variant's range, and leaves _task and the goal
\* unchanged.
C9_SampleTasks ==
  [][ ret'.op = "sample_tasks" =>
        /\ Len(ret'.tasks) = ret'.n
        /\ \A i \in 1..Len(ret'.tasks) :
             /\ ret'.tasks[i] \in 1..Len(heap')
             /\ DOMAIN heap'[ret'.tasks[i]] = {variant}
             /\ InRange(heap'[ret'.tasks[i]][variant])
        /\ UNCHANGED <<_task, goal>> ]_vars

\* C9 witness: sample_tasks(2) returned on an instance whose task had been
\* set by reset_task.
C9_Witness ==
  /\ ret.op = "sample_tasks"
  /\ ret.n >= 2
  /\ Len(ret.tasks) >= 2
  /\ lastReset[ret.env] # 0

\* C10: the state vector a step reads is the one the physics left after
\* that step's advance, and the done it returns is decided by that vector
\* alone, whatever the done of the step before.
C10_DoneFromPostState ==
  [][ ret'.op = "step" =>
        /\ sim'[ret'.env] \in outcomes
        /\ ret'.state = sim'[ret'.env]
        /\ ret'.done = ~Healthy(ret'.state)
        /\ ret'.after_done => ret.done ]_vars

\* C10 witness: a step right after a step that returned done = True was
\* executed and returned done = False.
C10_Witness ==
  /\ ret.op = "step"
  /\ ret.after_done
  /\ ~ret.done
  /\ Healthy(sim[ret.env])

====
